---- MODULE Spec2Model ----
(***************************************************************************)
(* Model of LightboxModule (src/js/lightbox.js): the photo viewer's state, *)
(* its binding to the address fragment, and the event handlers init()      *)
(* registers.  Strings are sequences of one-character strings, indices are *)
(* 0-based as in the source (photos[i+1] is _photos[i]).                    *)
(***************************************************************************)
EXTENDS Integers, Sequences, FiniteSets, TLC

VARIABLES
    pc,                 \* "start" before init(photos) has run, "ready" after
    photos,             \* _photos
    currentIndex,       \* _currentIndex
    suppressHashChange, \* _suppressHashChange
    hash,               \* window.location.hash
    modal,              \* the modal widget: "hidden", "shown" (class "show" present), "hiding"
    pendingFrames,      \* requestAnimationFrame callbacks scheduled and not yet run
    pendingHashChange,  \* hashchange notifications queued and not yet delivered
    rendered,           \* index of the photo put into #lightboxPhoto, -1 before any show
    navButtons,         \* <<prev displayed, next displayed>>
    preloads,           \* indices for which the last handler created a preloading Image
    modalReq,           \* request the last handler made to the modal: "none", "show", "hide"
    touchStartX,        \* _touchStartX
    touchStartY,        \* _touchStartY
    touchMoved,         \* _touchMoved
    historyLength,      \* window.history.length: entries of the session history
    clipboardPresent,   \* navigator.clipboard exists (secure context, recent browser)
    toastSurface,       \* #shareToast and #shareToastBody exist
    pendingWrites,      \* urls of the clipboard.writeText promises not yet settled
    clipboardText,      \* what the last completed copy put on the clipboard
    shares,             \* calls of share() so far
    copies,             \* copies completed so far
    toasts,             \* "Link copied to clipboard" toasts shown so far
    shareErrors,        \* share() calls that ended in an uncaught exception
    lastOp              \* the handler that ran last, its argument and the branch it took
                        \* (open: the index; touchend: <<dx, dy>>; hashchange: how many
                        \* notifications in a row the listener has returned from at once)

vars == <<pc, photos, currentIndex, suppressHashChange, hash, modal, pendingFrames,
          pendingHashChange, rendered, navButtons, preloads, modalReq,
          touchStartX, touchStartY, touchMoved, historyLength,
          clipboardPresent, toastSurface, pendingWrites, clipboardText,
          shares, copies, toasts, shareErrors, lastOp>>

viewVars == <<currentIndex, suppressHashChange, hash, pendingFrames, rendered, navButtons,
             historyLength>>
touchVars == <<touchStartX, touchStartY, touchMoved>>
shareVars == <<clipboardPresent, toastSurface, pendingWrites, clipboardText,
               shares, copies, toasts, shareErrors>>

----------------------------------------------------------------------------
(* Bounds *)

MaxFrames == 2      \* animation-frame callbacks pending at once
MaxEvents == 2      \* hashchange notifications pending at once
MaxHistory == 2     \* entries of the session history
MaxShares == 2      \* calls of share()
MaxLen == 4         \* characters of a filename
MaxDisp == 52       \* touch end points lie in -MaxDisp..MaxDisp on both axes

----------------------------------------------------------------------------
(* Strings *)

LowerCase == <<"a","b","c","d","e","f","g","h","i","j","k","l","m",
               "n","o","p","q","r","s","t","u","v","w","x","y","z">>
UpperCase == <<"A","B","C","D","E","F","G","H","I","J","K","L","M",
               "N","O","P","Q","R","S","T","U","V","W","X","Y","Z">>
Digits == {"0","1","2","3","4","5","6","7","8","9"}

Range(s) == {s[k] : k \in DOMAIN s}

StartsWith(s, p) == Len(s) >= Len(p) /\ SubSeq(s, 1, Len(p)) = p

\* String.prototype.replace with a string pattern: the first occurrence only.
Replace(s, pat, rep) ==
    LET occ == {k \in 1..(Len(s) - Len(pat) + 1) : SubSeq(s, k, k + Len(pat) - 1) = pat}
    IN  IF occ = {} THEN s
        ELSE LET k == CHOOSE m \in occ : \A n \in occ : m <= n
             IN  SubSeq(s, 1, k - 1) \o rep \o SubSeq(s, k + Len(pat), Len(s))

Abs(x) == IF x < 0 THEN -x ELSE x

PhotoPrefix == <<"#","p","h","o","t","o","=">>

----------------------------------------------------------------------------
(* slugFor *)

\* .replace(/\.[^.]+$/, ""): drop the last dot and what follows it, when something follows it
StripExtension(s) ==
    LET dots == {k \in DOMAIN s : s[k] = "."}
    IN  IF dots = {} THEN s
        ELSE LET k == CHOOSE m \in dots : \A n \in dots : n <= m
             IN  IF k < Len(s) THEN SubSeq(s, 1, k - 1) ELSE s

LowerChar(c) ==
    IF \E k \in DOMAIN UpperCase : UpperCase[k] = c
    THEN LowerCase[CHOOSE k \in DOMAIN UpperCase : UpperCase[k] = c]
    ELSE c

ToLowerCase(s) == [k \in DOMAIN s |-> LowerChar(s[k])]

IsSlugChar(c) == c \in Range(LowerCase) \cup Digits \cup {"-"}

\* .replace(/[^a-z0-9-]/g, "-")
HyphenateOthers(s) == [k \in DOMAIN s |-> IF IsSlugChar(s[k]) THEN s[k] ELSE "-"]

\* .replace(/-+/g, "-")
CollapseHyphens(s) ==
    LET keep == {k \in DOMAIN s : ~(s[k] = "-" /\ k > 1 /\ s[k - 1] = "-")}
        F[k \in 0..Len(s)] ==
            IF k = 0 THEN <<>>
            ELSE IF k \in keep THEN Append(F[k - 1], s[k]) ELSE F[k - 1]
    IN  F[Len(s)]

\* .replace(/^-|-$/g, "")
TrimHyphens(s) ==
    LET a == IF Len(s) > 0 /\ s[1] = "-" THEN SubSeq(s, 2, Len(s)) ELSE s
    IN  IF Len(a) > 0 /\ a[Len(a)] = "-" THEN SubSeq(a, 1, Len(a) - 1) ELSE a

\* slugFor without the /-+/ replacement
slugFor_noCollapse(photo) ==
    IF photo.slug # <<>> THEN photo.slug
    ELSE TrimHyphens(HyphenateOthers(ToLowerCase(StripExtension(photo.filename))))

slugFor(photo) ==
    IF photo.slug # <<>> THEN photo.slug
    ELSE TrimHyphens(CollapseHyphens(HyphenateOthers(ToLowerCase(StripExtension(photo.filename)))))

\* findIndex over _photos (catalog is _photos as the caller reads it):
\* the first match, -1 when there is none
indexBySlug(catalog, slug) ==
    LET F[k \in 0..Len(catalog)] ==
            IF k = 0 THEN -1
            ELSE IF F[k - 1] # -1 THEN F[k - 1]
            ELSE IF slugFor(catalog[k]) = slug THEN k - 1 ELSE -1
    IN  F[Len(catalog)]

----------------------------------------------------------------------------
(* Inputs *)

Photo(slug, filename) == [slug |-> slug, filename |-> filename]

CatalogABC == << Photo(<<"a">>, <<"a",".","j">>),
                 Photo(<<"b">>, <<"b",".","j">>),
                 Photo(<<"c">>, <<"c",".","j">>) >>

\* no explicit slug on the first record: its slug is derived, "a-b"
CatalogDerived == << Photo(<<>>, <<"A","_","b",".","j">>),
                     Photo(<<"b">>, <<"b",".","j">>) >>

\* slugs are not enforced to be unique
CatalogDup == << Photo(<<"b">>, <<"b",".","j">>),
                 Photo(<<"a">>, <<"a",".","j">>),
                 Photo(<<"a">>, <<"x",".","j">>) >>

Catalogs == { <<>>, CatalogABC, CatalogDerived, CatalogDup }

PhotoHash(slug) == PhotoPrefix \o slug

Fragments == { <<>>,                          \* no fragment
               PhotoHash(<<"a">>),
               PhotoHash(<<"b">>),
               PhotoHash(<<"c">>),
               PhotoHash(<<"a","-","b">>),
               PhotoHash(<<"z">>),            \* well-formed, in no catalog
               PhotoHash(<<"A","!">>),        \* malformed slug
               PhotoHash(<<>>),               \* "#photo=" alone
               <<"#","a">> }                  \* some other fragment

OpenArgs == -1..3
Keys == {"ArrowLeft", "ArrowRight", "Escape"}
TouchStarts == {<<0, 0>>, <<5, 5>>}
TouchEndsX == {-60, 60}
TouchEndsY == {0, 70}

SWIPE_THRESHOLD == 50

NoOp == [op |-> "none", arg |-> 0, br |-> "none"]
Op(o, a, b) == [op |-> o, arg |-> a, br |-> b]

----------------------------------------------------------------------------
(* Module functions *)

CanSchedule == pendingFrames < MaxFrames

setHash_keep(slug) ==
    /\ suppressHashChange' = TRUE
    /\ hash' = hash
    /\ historyLength' = historyLength
    /\ pendingFrames' = pendingFrames + 1

setHash_noSuppress(slug) ==
    /\ suppressHashChange' = suppressHashChange
    /\ hash' = PhotoPrefix \o slug
    /\ historyLength' = historyLength
    /\ pendingFrames' = pendingFrames + 1

setHash_push(slug) ==
    /\ suppressHashChange' = TRUE
    /\ hash' = PhotoPrefix \o slug
    /\ historyLength' = historyLength + 1
    /\ pendingFrames' = pendingFrames + 1

\* replaceState: the current history entry is replaced, none is added
setHash(slug) ==
    /\ suppressHashChange' = TRUE
    /\ hash' = PhotoPrefix \o slug
    /\ historyLength' = historyLength
    /\ pendingFrames' = pendingFrames + 1

clearHash_keep ==
    /\ suppressHashChange' = TRUE
    /\ hash' = hash
    /\ historyLength' = historyLength
    /\ pendingFrames' = pendingFrames + 1

\* replaceState: the current history entry is replaced, none is added;
\* pathname + search is the address without a fragment
clearHash ==
    /\ suppressHashChange' = TRUE
    /\ hash' = <<>>
    /\ historyLength' = historyLength
    /\ pendingFrames' = pendingFrames + 1

\* lines 60 and 91: if (index < 0 || index >= _photos.length) return;
outOfRange(catalog, index) == index < 0 \/ index >= Len(catalog)

\* preload without its range check
preload_unchecked(catalog, index) == {index}

\* preload(index): returns at once for an index out of range, otherwise creates an
\* Image whose src is that photo's file; the result is the set of indices fetched
preload(catalog, index) == IF outOfRange(catalog, index) THEN {} ELSE {index}

show_clamp(catalog, index) ==
    IF Len(catalog) = 0
    THEN /\ UNCHANGED viewVars
         /\ preloads' = {}
    ELSE LET i == IF index < 0 THEN 0
                  ELSE IF index >= Len(catalog) THEN Len(catalog) - 1 ELSE index
         IN  /\ currentIndex' = i
             /\ rendered' = i
             /\ navButtons' = <<i > 0, i < Len(catalog) - 1>>
             /\ setHash(slugFor(catalog[i + 1]))
             /\ preloads' = preload(catalog, i - 1) \cup preload(catalog, i + 1)

show(catalog, index) ==
    IF outOfRange(catalog, index)
    THEN /\ UNCHANGED viewVars
         /\ preloads' = {}
    ELSE /\ currentIndex' = index
         /\ rendered' = index
         /\ navButtons' = <<index > 0, index < Len(catalog) - 1>>
         /\ setHash(slugFor(catalog[index + 1]))
         /\ preloads' = preload(catalog, index - 1) \cup preload(catalog, index + 1)

\* _modal.show(): the widget is taken to honour every request, also one that
\* arrives while it is hiding (the hide is then abandoned)
modalShow ==
    /\ modal' = "shown"
    /\ modalReq' = "show"

\* _modal.hide(): the "show" class goes at once, hidden.bs.modal follows
modalHide ==
    /\ modal' = "hiding"
    /\ modalReq' = "hide"

noModalReq ==
    /\ modal' = modal
    /\ modalReq' = "none"

open(catalog, index) ==
    /\ show(catalog, index)
    /\ modalShow

hasShowClass_never == FALSE

\* modalEl.classList.contains("show")
hasShowClass == modal = "shown"

----------------------------------------------------------------------------
(* Handlers *)

\* A listener that ignores one notification per window only
hashchangeSuppressed_once ==
    suppressHashChange /\ ~(lastOp.op = "hashchange" /\ lastOp.br = "suppressed")

hashchangeSuppressed_never == FALSE

\* line 192: if (_suppressHashChange) return;
hashchangeSuppressed == suppressHashChange

hashchangeBranch_reopen ==
    IF hashchangeSuppressed THEN "suppressed"
    ELSE IF StartsWith(hash, PhotoPrefix)
         THEN IF indexBySlug(photos, Replace(hash, PhotoPrefix, <<>>)) # -1
              THEN "open"
              ELSE "unknown"
         ELSE IF hasShowClass THEN "hide" ELSE "nothing"

hashchangeBranch_closeUnknown ==
    IF hashchangeSuppressed THEN "suppressed"
    ELSE IF StartsWith(hash, PhotoPrefix)
              /\ indexBySlug(photos, Replace(hash, PhotoPrefix, <<>>)) # -1
         THEN IF hasShowClass THEN "navigate" ELSE "open"
         ELSE IF hasShowClass THEN "hide" ELSE "nothing"

\* The branch the hashchange listener takes in the current state
hashchangeBranch ==
    IF hashchangeSuppressed THEN "suppressed"
    ELSE IF StartsWith(hash, PhotoPrefix)
         THEN IF indexBySlug(photos, Replace(hash, PhotoPrefix, <<>>)) # -1
              THEN IF hasShowClass THEN "navigate" ELSE "open"
              ELSE "unknown"
         ELSE IF hasShowClass THEN "hide" ELSE "nothing"

hashchangeListener ==
    LET br == hashchangeBranch
        idx == indexBySlug(photos, Replace(hash, PhotoPrefix, <<>>))
        ignoredBefore == IF lastOp.op = "hashchange" /\ lastOp.br = "suppressed"
                         THEN lastOp.arg ELSE 0
    IN  /\ lastOp' = Op("hashchange", IF br = "suppressed" THEN ignoredBefore + 1 ELSE 0, br)
        /\ CASE br = "navigate" -> show(photos, idx) /\ noModalReq
             [] br = "open"     -> open(photos, idx)
             [] br = "hide"     -> modalHide /\ UNCHANGED viewVars /\ preloads' = {}
             [] OTHER           -> noModalReq /\ UNCHANGED viewVars /\ preloads' = {}

checkHash_unguarded(catalog) ==
    IF ~StartsWith(hash, PhotoPrefix)
    THEN /\ noModalReq /\ UNCHANGED viewVars /\ preloads' = {}
    ELSE open(catalog, indexBySlug(catalog, Replace(hash, PhotoPrefix, <<>>)))

checkHash(catalog) ==
    IF ~StartsWith(hash, PhotoPrefix)
    THEN /\ noModalReq /\ UNCHANGED viewVars /\ preloads' = {}
    ELSE LET idx == indexBySlug(catalog, Replace(hash, PhotoPrefix, <<>>))
         IN  IF idx # -1
             THEN open(catalog, idx)
             ELSE noModalReq /\ UNCHANGED viewVars /\ preloads' = {}

touchIntent_atThreshold(x, y) ==
    LET dx == x - touchStartX
        dy == y - touchStartY
    IN  IF ~touchMoved THEN "tap"
        ELSE IF Abs(dx) >= SWIPE_THRESHOLD /\ Abs(dx) > Abs(dy)
             THEN IF dx < 0 THEN "next" ELSE "prev"
             ELSE "none"

\* touchend: the intent it classifies, "tap" when no touchmove came since touchstart
touchIntent(x, y) ==
    LET dx == x - touchStartX
        dy == y - touchStartY
    IN  IF ~touchMoved THEN "tap"
        ELSE IF Abs(dx) > SWIPE_THRESHOLD /\ Abs(dx) > Abs(dy)
             THEN IF dx < 0 THEN "next" ELSE "prev"
             ELSE "none"

----------------------------------------------------------------------------
(* State machine *)

\* No share() has been called yet
shareIdle ==
    /\ pendingWrites = <<>>
    /\ clipboardText = <<>>
    /\ shares = 0
    /\ copies = 0
    /\ toasts = 0
    /\ shareErrors = 0

Init ==
    /\ pc = "start"
    /\ photos = <<>>
    /\ currentIndex = 0
    /\ suppressHashChange = FALSE
    /\ hash \in Fragments
    /\ modal = "hidden"
    /\ pendingFrames = 0
    /\ pendingHashChange = 0
    /\ rendered = -1
    /\ navButtons = <<TRUE, TRUE>>
    /\ preloads = {}
    /\ modalReq = "none"
    /\ touchStartX = 0
    /\ touchStartY = 0
    /\ touchMoved = FALSE
    /\ historyLength = 1
    /\ clipboardPresent = TRUE
    /\ toastSurface = TRUE
    /\ shareIdle
    /\ lastOp = NoOp

\* init(photos), with the deep-link check that ends it
CallInit ==
    /\ pc = "start"
    /\ UNCHANGED shareVars
    /\ pc' = "ready"
    /\ \E catalog \in Catalogs : photos' = catalog /\ checkHash(catalog)
    /\ lastOp' = Op("init", 0, "none")
    /\ UNCHANGED <<pendingHashChange, touchVars>>

\* LightboxModule.open(index), the exported entry point
CallOpen ==
    /\ pc = "ready"
    /\ UNCHANGED shareVars
    /\ CanSchedule
    /\ \E index \in OpenArgs :
          /\ open(photos, index)
          /\ lastOp' = Op("open", index, "none")
    /\ UNCHANGED <<pc, photos, pendingHashChange, touchVars>>

ClickPrev ==
    /\ pc = "ready"
    /\ UNCHANGED shareVars
    /\ CanSchedule
    /\ show(photos, currentIndex - 1)
    /\ noModalReq
    /\ lastOp' = Op("clickPrev", 0, "none")
    /\ UNCHANGED <<pc, photos, pendingHashChange, touchVars>>

ClickNext ==
    /\ pc = "ready"
    /\ UNCHANGED shareVars
    /\ CanSchedule
    /\ show(photos, currentIndex + 1)
    /\ noModalReq
    /\ lastOp' = Op("clickNext", 0, "none")
    /\ UNCHANGED <<pc, photos, pendingHashChange, touchVars>>

KeyDown ==
    /\ pc = "ready"
    /\ UNCHANGED shareVars
    /\ CanSchedule
    /\ \E key \in Keys :
          /\ IF ~hasShowClass THEN UNCHANGED viewVars /\ preloads' = {}
             ELSE IF key = "ArrowLeft" THEN show(photos, currentIndex - 1)
             ELSE IF key = "ArrowRight" THEN show(photos, currentIndex + 1)
             ELSE UNCHANGED viewVars /\ preloads' = {}
          /\ lastOp' = Op("keydown", 0, key)
    /\ noModalReq
    /\ UNCHANGED <<pc, photos, pendingHashChange, touchVars>>

TouchStart ==
    /\ pc = "ready"
    /\ UNCHANGED shareVars
    /\ \E p \in TouchStarts :
          /\ touchStartX' = p[1]
          /\ touchStartY' = p[2]
    /\ touchMoved' = FALSE
    /\ lastOp' = Op("touchstart", 0, "none")
    /\ noModalReq
    /\ preloads' = {}
    /\ UNCHANGED <<pc, photos, pendingHashChange, viewVars>>

TouchMove ==
    /\ pc = "ready"
    /\ UNCHANGED shareVars
    /\ touchMoved' = TRUE
    /\ lastOp' = Op("touchmove", 0, "none")
    /\ noModalReq
    /\ preloads' = {}
    /\ UNCHANGED <<pc, photos, pendingHashChange, viewVars, touchStartX, touchStartY>>

\* The touchend listener, for a touch that ends at screen point (x, y)
touchendListener(x, y) ==
    LET intent == touchIntent(x, y)
    IN  /\ CASE intent = "next" -> show(photos, currentIndex + 1)
             [] intent = "prev" -> show(photos, currentIndex - 1)
             [] OTHER           -> UNCHANGED viewVars /\ preloads' = {}
        /\ lastOp' = Op("touchend", <<x - touchStartX, y - touchStartY>>, intent)
        /\ noModalReq
        /\ UNCHANGED <<pc, photos, pendingHashChange, touchVars>>

TouchEnd ==
    /\ pc = "ready"
    /\ UNCHANGED shareVars
    /\ CanSchedule
    /\ \E x \in TouchEndsX, y \in TouchEndsY : touchendListener(x, y)

\* The user dismisses the modal (close button, backdrop, Escape): the widget hides itself
UserDismiss ==
    /\ pc = "ready"
    /\ UNCHANGED shareVars
    /\ modal = "shown"
    /\ modal' = "hiding"
    /\ modalReq' = "none"
    /\ lastOp' = Op("dismiss", 0, "none")
    /\ preloads' = {}
    /\ UNCHANGED <<pc, photos, pendingHashChange, viewVars, touchVars>>

\* hidden.bs.modal -> clearHash
HiddenBsModal ==
    /\ pc = "ready"
    /\ UNCHANGED shareVars
    /\ modal = "hiding"
    /\ CanSchedule
    /\ modal' = "hidden"
    /\ modalReq' = "none"
    /\ clearHash
    /\ lastOp' = Op("hidden", 0, "none")
    /\ preloads' = {}
    /\ UNCHANGED <<pc, photos, currentIndex, rendered, navButtons, pendingHashChange, touchVars>>

\* The address changes outside the module and a hashchange is queued: a link or a
\* manual edit pushes a history entry, back/forward moves among the existing ones
ExternalChange ==
    /\ pc = "ready"
    /\ UNCHANGED shareVars
    /\ pendingHashChange < MaxEvents
    /\ \E h \in Fragments : h # hash /\ hash' = h
    /\ \E pushed \in BOOLEAN :
          /\ pushed => historyLength < MaxHistory
          /\ historyLength' = IF pushed THEN historyLength + 1 ELSE historyLength
    /\ pendingHashChange' = pendingHashChange + 1
    /\ lastOp' = Op("external", 0, "none")
    /\ noModalReq
    /\ preloads' = {}
    /\ UNCHANGED <<pc, photos, currentIndex, suppressHashChange, pendingFrames,
                   rendered, navButtons, touchVars>>

\* Delivery of a queued hashchange notification to the listener
HashChange ==
    /\ pc = "ready"
    /\ UNCHANGED shareVars
    /\ pendingHashChange > 0
    /\ CanSchedule
    /\ pendingHashChange' = pendingHashChange - 1
    /\ hashchangeListener
    /\ UNCHANGED <<pc, photos, touchVars>>

AnimationFrame_oneCallback ==
    /\ pc = "ready"
    /\ UNCHANGED shareVars
    /\ pendingFrames > 0
    /\ pendingFrames' = pendingFrames - 1
    /\ suppressHashChange' = FALSE
    /\ lastOp' = Op("frame", 0, "none")
    /\ noModalReq
    /\ preloads' = {}
    /\ UNCHANGED <<pc, photos, currentIndex, hash, rendered, navButtons,
                   pendingHashChange, touchVars, historyLength>>

\* The next animation frame: the browser runs every requestAnimationFrame callback
\* scheduled by setHash/clearHash since the last frame, one after the other, with
\* no event handler in between
AnimationFrame ==
    /\ pc = "ready"
    /\ UNCHANGED shareVars
    /\ pendingFrames > 0
    /\ pendingFrames' = 0
    /\ suppressHashChange' = FALSE
    /\ lastOp' = Op("frame", 0, "none")
    /\ noModalReq
    /\ preloads' = {}
    /\ UNCHANGED <<pc, photos, currentIndex, hash, rendered, navButtons,
                   pendingHashChange, touchVars, historyLength>>

Next ==
    \/ CallInit
    \/ CallOpen
    \/ ClickPrev
    \/ ClickNext
    \/ KeyDown
    \/ TouchStart
    \/ TouchMove
    \/ TouchEnd
    \/ UserDismiss
    \/ HiddenBsModal
    \/ ExternalChange
    \/ HashChange
    \/ AnimationFrame

Spec == Init /\ [][Next]_vars

\* The browser keeps producing animation frames: a pending callback is run
SpecFair == Spec /\ WF_vars(AnimationFrame)

----------------------------------------------------------------------------
(* Touch gestures over a range of displacements *)

\* The state init(CatalogABC) leaves when the page is loaded at "#photo=b"
InitTouch ==
    /\ pc = "ready"
    /\ photos = CatalogABC
    /\ currentIndex = 1
    /\ suppressHashChange = TRUE
    /\ hash = PhotoHash(<<"b">>)
    /\ modal = "shown"
    /\ pendingFrames = 1
    /\ pendingHashChange = 0
    /\ rendered = 1
    /\ navButtons = <<TRUE, TRUE>>
    /\ preloads = {0, 2}
    /\ modalReq = "show"
    /\ touchStartX = 0
    /\ touchStartY = 0
    /\ touchMoved = FALSE
    /\ historyLength = 1
    /\ clipboardPresent = TRUE
    /\ toastSurface = TRUE
    /\ shareIdle
    /\ lastOp = Op("init", 0, "none")

\* The finger is lifted: the touchend that closes the gesture begun by the last
\* touchstart, at any point of the range
GestureEnd ==
    /\ pc = "ready"
    /\ UNCHANGED shareVars
    /\ CanSchedule
    /\ lastOp.op \in {"touchstart", "touchmove"}
    /\ \E x \in (-MaxDisp)..MaxDisp, y \in (-MaxDisp)..MaxDisp : touchendListener(x, y)

NextTouch ==
    \/ TouchStart
    \/ TouchMove
    \/ GestureEnd
    \/ AnimationFrame

SpecTouch == InitTouch /\ [][NextTouch]_vars

----------------------------------------------------------------------------
(* The share button *)

\* showToast(message): returns at once when #shareToast or #shareToastBody is
\* missing, otherwise shows one toast
showToast ==
    toasts' = IF toastSurface THEN toasts + 1 ELSE toasts

\* The body of the catch callback: a textarea holding url is selected and
\* document.execCommand("copy") puts it on the clipboard (its result is not read
\* by the code; the command is taken to succeed), then the toast
fallbackCopy(url) ==
    /\ clipboardText' = url
    /\ copies' = copies + 1
    /\ showToast

\* share(): url is location.href, modelled by its fragment.  The expression
\* navigator.clipboard.writeText(url) is evaluated before .then and .catch are
\* attached: where navigator.clipboard is undefined it throws a TypeError out of
\* the click listener and nothing else of share() runs.
share ==
    /\ shares' = shares + 1
    /\ IF clipboardPresent
         THEN /\ pendingWrites' = Append(pendingWrites, hash)
              /\ lastOp' = Op("share", 0, "pending")
              /\ UNCHANGED <<clipboardText, copies, toasts, shareErrors>>
         ELSE /\ shareErrors' = shareErrors + 1
              /\ lastOp' = Op("share", 0, "threw")
              /\ UNCHANGED <<pendingWrites, clipboardText, copies, toasts>>

\* A click on #lightboxShare
ShareClick ==
    /\ pc = "ready"
    /\ shares < MaxShares
    /\ share
    /\ noModalReq
    /\ preloads' = {}
    /\ UNCHANGED <<pc, photos, viewVars, pendingHashChange, touchVars,
                   clipboardPresent, toastSurface>>

\* The promise of one clipboard write settles: fulfilled (the browser has
\* written url) runs the then callback, rejected (permission denied, document
\* not focused) runs the catch callback
ClipboardSettle ==
    /\ pc = "ready"
    /\ \E k \in DOMAIN pendingWrites :
        /\ pendingWrites' = SubSeq(pendingWrites, 1, k - 1)
                               \o SubSeq(pendingWrites, k + 1, Len(pendingWrites))
        /\ \/ /\ clipboardText' = pendingWrites[k]
              /\ copies' = copies + 1
              /\ showToast
              /\ lastOp' = Op("clipboard", 0, "fulfilled")
           \/ /\ fallbackCopy(pendingWrites[k])
              /\ lastOp' = Op("clipboard", 0, "rejected")
    /\ noModalReq
    /\ preloads' = {}
    /\ UNCHANGED <<pc, photos, viewVars, pendingHashChange, touchVars,
                   clipboardPresent, toastSurface, shares, shareErrors>>

\* The page before init(), in any environment: with or without the clipboard
\* API, with or without the toast elements
InitShare ==
    /\ pc = "start"
    /\ photos = <<>>
    /\ currentIndex = 0
    /\ suppressHashChange = FALSE
    /\ hash \in Fragments
    /\ modal = "hidden"
    /\ pendingFrames = 0
    /\ pendingHashChange = 0
    /\ rendered = -1
    /\ navButtons = <<TRUE, TRUE>>
    /\ preloads = {}
    /\ modalReq = "none"
    /\ touchStartX = 0
    /\ touchStartY = 0
    /\ touchMoved = FALSE
    /\ historyLength = 1
    /\ clipboardPresent \in BOOLEAN
    /\ toastSurface \in BOOLEAN
    /\ shareIdle
    /\ lastOp = NoOp

NextShare ==
    \/ CallInit
    \/ ClickNext
    \/ AnimationFrame
    \/ ShareClick
    \/ ClipboardSettle

SpecShare == InitShare /\ [][NextShare]_vars

----------------------------------------------------------------------------
(* slugFor over all short filenames *)

FilenameChars == {"a", "B", "1", "-", "_", "."}
Filenames == UNION {[1..n -> FilenameChars] : n \in 0..MaxLen}
ExplicitSlugs == {<<>>, <<"x">>, <<"X", "_">>}

\* init([photo]) done on a page without fragment, for any one record of the range
InitSlug ==
    /\ pc = "ready"
    /\ photos \in {<<Photo(s, f)>> : s \in ExplicitSlugs, f \in Filenames}
    /\ currentIndex = 0
    /\ suppressHashChange = FALSE
    /\ hash = <<>>
    /\ modal = "hidden"
    /\ pendingFrames = 0
    /\ pendingHashChange = 0
    /\ rendered = -1
    /\ navButtons = <<TRUE, TRUE>>
    /\ preloads = {}
    /\ modalReq = "none"
    /\ touchStartX = 0
    /\ touchStartY = 0
    /\ touchMoved = FALSE
    /\ historyLength = 1
    /\ clipboardPresent = TRUE
    /\ toastSurface = TRUE
    /\ shareIdle
    /\ lastOp = Op("init", 0, "none")

NextSlug ==
    \/ CallOpen
    \/ AnimationFrame

SpecSlug == InitSlug /\ [][NextSlug]_vars

TypeOK ==
    /\ pc \in {"start", "ready"}
    /\ photos \in Catalogs
    /\ currentIndex \in 0..2
    /\ suppressHashChange \in BOOLEAN
    /\ modal \in {"hidden", "shown", "hiding"}
    /\ pendingFrames \in 0..MaxFrames
    /\ pendingHashChange \in 0..MaxEvents
    /\ rendered \in -1..2
    /\ preloads \subseteq 0..2
    /\ modalReq \in {"none", "show", "hide"}
    /\ touchMoved \in BOOLEAN
    /\ historyLength \in 1..MaxHistory
    /\ clipboardPresent \in BOOLEAN
    /\ toastSurface \in BOOLEAN
    /\ Len(pendingWrites) <= MaxShares
    /\ shares \in 0..MaxShares
    /\ copies \in 0..MaxShares
    /\ toasts \in 0..MaxShares
    /\ shareErrors \in 0..MaxShares

----------------------------------------------------------------------------
(* Properties *)

ValidIndex(i) == 0 <= i /\ i < Len(photos)

\* The slug a "#photo=..." fragment carries
SlugOf(h) == SubSeq(h, Len(PhotoPrefix) + 1, Len(h))

\* 0-based indices of the records of catalog whose slug is slug
Matches(catalog, slug) == {k - 1 : k \in {m \in DOMAIN catalog : slugFor(catalog[m]) = slug}}

Least(S) == CHOOSE m \in S : \A n \in S : m <= n

CurrentHash == PhotoHash(slugFor(photos[currentIndex + 1]))

\* [a-z0-9-]+ after "#photo="
WellFormedPhotoFragment(h) ==
    /\ StartsWith(h, PhotoPrefix)
    /\ Len(SlugOf(h)) > 0
    /\ \A c \in Range(SlugOf(h)) : IsSlugChar(c)

\* A step that delivers a hashchange notification to the listener
HashChangeStep == pendingHashChange' = pendingHashChange - 1

\* C1: after open(i) with 0 <= i < count the viewer is open, currentIndex is i
\* and the fragment is "#photo=" followed by the slug of photo i.
C1_OpenValid ==
    (lastOp.op = "open" /\ ValidIndex(lastOp.arg)) =>
        /\ modal = "shown"
        /\ currentIndex = lastOp.arg
        /\ hash = PhotoHash(slugFor(photos[lastOp.arg + 1]))

C1_Witness ==
    /\ lastOp.op = "open"
    /\ lastOp.arg = 2
    /\ photos = CatalogABC
    /\ currentIndex = 2
    /\ modal = "shown"
    /\ hash = PhotoHash(<<"c">>)

\* C2: open(i) with i outside [0, count) leaves isOpen, currentIndex, the
\* fragment and the suppression flag as they were.
C2_OpenOutOfRangeUnchanged ==
    [][(lastOp'.op = "open" /\ ~ValidIndex(lastOp'.arg) /\ pc = "ready") =>
          UNCHANGED <<modal, currentIndex, hash, suppressHashChange>>]_vars

\* C3: once init has run, an open viewer has a currentIndex that is a valid
\* index into the catalog.
C3_OpenImpliesValidIndex ==
    (pc = "ready" /\ modal = "shown") => ValidIndex(currentIndex)

\* C4 as stated: open implies the fragment is "#photo=<slug of current>",
\* closed implies the fragment is empty, in every reachable state.
C4_FragmentMirrorsViewer ==
    pc = "ready" =>
        /\ (modal = "shown" => (ValidIndex(currentIndex) /\ hash = CurrentHash))
        /\ (modal # "shown" => hash = <<>>)

\* C4 amended: the viewer writes the fragment in two ways only.  A step that
\* changes the fragment is an external change, or a successful show that
\* leaves "#photo=<slug of the new currentIndex>" with the suppression flag
\* set, or the hidden notification that leaves the viewer closed and the
\* fragment empty; and every step that changes currentIndex leaves the
\* fragment equal to "#photo=<slug of the new currentIndex>".
C4_FragmentWrites ==
    [][LET published == /\ 0 <= currentIndex'
                        /\ currentIndex' < Len(photos')
                        /\ hash' = PhotoHash(slugFor(photos'[currentIndex' + 1]))
       IN  /\ (hash' # hash =>
                  \/ lastOp'.op = "external"
                  \/ /\ published
                     /\ rendered' = currentIndex'
                     /\ suppressHashChange'
                  \/ /\ lastOp'.op = "hidden"
                     /\ modal' = "hidden"
                     /\ hash' = <<>>
                     /\ suppressHashChange')
           /\ (currentIndex' # currentIndex => published)]_vars

C4_Witness ==
    /\ lastOp.op = "hashchange"
    /\ lastOp.br = "navigate"
    /\ modal = "shown"
    /\ currentIndex = 1
    /\ hash = CurrentHash

\* C5: the modal's hidden notification leaves the viewer not open and the
\* address without a fragment, whatever opens and navigations came before.
C5_CloseClears ==
    lastOp.op = "hidden" => (modal = "hidden" /\ hash = <<>>)

C5_Witness ==
    /\ lastOp.op = "hidden"
    /\ rendered = 2
    /\ currentIndex = 2
    /\ modal = "hidden"
    /\ hash = <<>>

\* C6: a hashchange notification delivered while the suppression flag is set
\* changes neither currentIndex, isOpen nor the fragment, and publishes nothing.
C6_SuppressedIsInert ==
    [][(HashChangeStep /\ suppressHashChange) =>
          /\ UNCHANGED <<currentIndex, modal, hash, suppressHashChange,
                         pendingFrames, rendered, navButtons>>
          /\ modalReq' = "none"
          /\ preloads' = {}]_vars

C6_Witness ==
    /\ lastOp.op = "hashchange"
    /\ lastOp.br = "suppressed"
    /\ suppressHashChange
    /\ pendingFrames > 0
    /\ modal = "shown"
    /\ ValidIndex(currentIndex)
    /\ hash = CurrentHash

\* C7: an unsuppressed hashchange whose fragment carries the slug of a catalog
\* entry moves currentIndex to the (first) entry with that slug; it requests
\* the modal to show when the viewer was closed and makes no modal request
\* when the viewer was open.
C7_KnownSlugOpensOrNavigates ==
    [][(/\ HashChangeStep
        /\ ~suppressHashChange
        /\ StartsWith(hash, PhotoPrefix)
        /\ Matches(photos, SlugOf(hash)) # {}) =>
          /\ currentIndex' = Least(Matches(photos, SlugOf(hash)))
          /\ modal' = "shown"
          /\ modalReq' = (IF modal = "shown" THEN "none" ELSE "show")]_vars

C7_Witness ==
    /\ lastOp.op = "hashchange"
    /\ lastOp.br = "navigate"
    /\ modalReq = "none"
    /\ modal = "shown"
    /\ photos = CatalogDup
    /\ currentIndex = 1
    /\ hash = PhotoHash(<<"a">>)

\* C8 as stated: an unsuppressed hashchange that finds the viewer open and a
\* fragment not of the form "#photo=<[a-z0-9-]+>" requests the modal to hide.
C8_InvalidCloses ==
    [][(/\ HashChangeStep
        /\ ~suppressHashChange
        /\ modal = "shown"
        /\ ~WellFormedPhotoFragment(hash)) =>
          (modalReq' = "hide" /\ modal' = "hiding")]_vars

\* C8 amended: an unsuppressed hashchange that finds the viewer open and a
\* fragment that does not start with "#photo=" (removed, or some other
\* fragment) requests the modal to hide, changing neither currentIndex nor
\* the fragment; and the hidden notification that follows leaves the viewer
\* closed with an empty fragment.
C8_NonPhotoCloses ==
    [][/\ (/\ HashChangeStep
           /\ ~suppressHashChange
           /\ modal = "shown"
           /\ ~StartsWith(hash, PhotoPrefix)) =>
             /\ modalReq' = "hide"
             /\ modal' = "hiding"
             /\ UNCHANGED <<currentIndex, hash>>
       /\ (modal = "hiding" /\ modal' = "hidden") =>
             (hash' = <<>> /\ lastOp'.op = "hidden")]_vars

C8_Witness ==
    /\ lastOp.op = "hashchange"
    /\ lastOp.br = "hide"
    /\ modalReq = "hide"
    /\ modal = "hiding"
    /\ hash = <<"#", "a">>
    /\ rendered = 1

\* C9: a hashchange whose fragment starts with "#photo=" but carries a slug
\* of no catalog entry changes nothing: not currentIndex, isOpen, the
\* fragment or the suppression flag, and it makes no modal request.
C9_UnknownSlugIgnored ==
    [][(/\ HashChangeStep
        /\ StartsWith(hash, PhotoPrefix)
        /\ Matches(photos, SlugOf(hash)) = {}) =>
          /\ UNCHANGED <<currentIndex, modal, hash, suppressHashChange,
                         pendingFrames, rendered, navButtons>>
          /\ modalReq' = "none"
          /\ preloads' = {}]_vars

C9_Witness ==
    /\ lastOp.op = "hashchange"
    /\ lastOp.br = "unknown"
    /\ modal = "shown"
    /\ hash = PhotoHash(<<"z">>)
    /\ ~suppressHashChange

\* C10: init opens the viewer exactly when the initial fragment is "#photo="
\* followed by the slug of a catalog entry, at the (first) entry with that
\* slug; otherwise the viewer stays closed and currentIndex, the fragment and
\* the suppression flag are untouched.
C10_DeepLinkOnInit ==
    [][(pc = "start" /\ pc' = "ready") =>
          LET known == /\ StartsWith(hash, PhotoPrefix)
                       /\ Matches(photos', SlugOf(hash)) # {}
          IN  /\ (modal' = "shown") <=> known
              /\ known => /\ currentIndex' = Least(Matches(photos', SlugOf(hash)))
                          /\ hash' = hash
                          /\ modalReq' = "show"
              /\ ~known => /\ modal' = "hidden"
                           /\ modalReq' = "none"
                           /\ UNCHANGED <<currentIndex, hash, suppressHashChange,
                                          pendingFrames>>]_vars

C10_Witness ==
    /\ lastOp.op = "init"
    /\ modal = "shown"
    /\ photos = CatalogDup
    /\ currentIndex = 1
    /\ hash = PhotoHash(<<"a">>)

\* A step in which a prev (next) intent reaches the viewer: click, key or swipe
PrevIntentStep ==
    /\ pc = "ready"
    /\ \/ lastOp'.op = "clickPrev"
       \/ lastOp'.op = "keydown" /\ lastOp'.br = "ArrowLeft"
       \/ lastOp'.op = "touchend" /\ lastOp'.br = "prev"

NextIntentStep ==
    /\ pc = "ready"
    /\ \/ lastOp'.op = "clickNext"
       \/ lastOp'.op = "keydown" /\ lastOp'.br = "ArrowRight"
       \/ lastOp'.op = "touchend" /\ lastOp'.br = "next"

\* C11: a prev intent at index 0 and a next intent at the last index change
\* nothing, whatever triggers them: currentIndex, isOpen, the fragment and the
\* suppression flag stay, no animation frame is requested, nothing is preloaded.
C11_BoundaryNavigationIsNoOp ==
    [][(\/ PrevIntentStep /\ currentIndex = 0
        \/ NextIntentStep /\ currentIndex = Len(photos) - 1) =>
          /\ UNCHANGED <<currentIndex, modal, hash, suppressHashChange,
                         pendingFrames, rendered, navButtons>>
          /\ modalReq' = "none"
          /\ preloads' = {}]_vars

C11_Witness ==
    /\ lastOp.op = "keydown"
    /\ lastOp.br = "ArrowRight"
    /\ photos = CatalogABC
    /\ modal = "shown"
    /\ currentIndex = 2
    /\ hash = PhotoHash(<<"c">>)
    /\ preloads = {}

\* C12: open, navigate and close add no history entry: only a change of the
\* address made outside the module changes the number of entries, so after
\* any number of photos viewed the back stack is as long as before.
C12_NoHistoryEntryAdded ==
    [][lastOp'.op # "external" => historyLength' = historyLength]_vars

C12_Witness ==
    /\ lastOp.op = "hidden"
    /\ photos = CatalogABC
    /\ rendered = 2
    /\ navButtons = <<TRUE, FALSE>>
    /\ hash = <<>>
    /\ historyLength = 1

\* C13: touch classification, for every displacement (dx, dy) of the range.
\* Without a touchmove since touchstart a touchend navigates nowhere; with
\* one it is next iff |dx| > 50, |dx| > |dy| and dx < 0, prev iff |dx| > 50,
\* |dx| > |dy| and dx > 0, and nothing otherwise; next and prev move
\* currentIndex by one where a neighbour exists, all else leaves the view alone.
C13_TouchClassification ==
    [][lastOp'.op = "touchend" =>
          LET dx == lastOp'.arg[1]
              dy == lastOp'.arg[2]
              horizontal == touchMoved /\ Abs(dx) > 50 /\ Abs(dx) > Abs(dy)
              isNext == horizontal /\ dx < 0
              isPrev == horizontal /\ dx > 0
          IN  /\ isNext <=> lastOp'.br = "next"
              /\ isPrev <=> lastOp'.br = "prev"
              /\ ~touchMoved <=> lastOp'.br = "tap"
              /\ (isNext /\ currentIndex + 1 < Len(photos)) =>
                    (currentIndex' = currentIndex + 1 /\ rendered' = currentIndex + 1)
              /\ (isPrev /\ currentIndex > 0) =>
                    (currentIndex' = currentIndex - 1 /\ rendered' = currentIndex - 1)
              /\ (~isNext /\ ~isPrev) =>
                    UNCHANGED <<currentIndex, hash, suppressHashChange, pendingFrames,
                                rendered, navButtons>>]_vars

C13_Witness ==
    /\ lastOp.op = "touchend"
    /\ lastOp.br = "next"
    /\ lastOp.arg = <<-51, 50>>
    /\ touchMoved
    /\ currentIndex = 2
    /\ hash = PhotoHash(<<"c">>)

\* C14: while the viewer is not open, a key, a touch or a click on prev/next
\* navigates nowhere: currentIndex and the fragment stay as they are and the
\* suppression flag is not set.
C14_ClosedIgnoresInput ==
    [][(/\ pc = "ready"
        /\ modal # "shown"
        /\ lastOp'.op \in {"keydown", "touchstart", "touchmove", "touchend",
                           "clickPrev", "clickNext"}) =>
          UNCHANGED <<currentIndex, hash, suppressHashChange>>]_vars

\* C15: a share() whose clipboard write fails (API missing, or write rejected)
\* runs the fallback copy of the url and ends like a success: one more copy, one
\* more toast exactly when the toast elements exist, no uncaught error.
FailedShareStep ==
    \/ lastOp'.op = "share" /\ shares' = shares + 1 /\ ~clipboardPresent
    \/ lastOp'.op = "clipboard" /\ lastOp'.br = "rejected"

C15_FailedShareFallsBack ==
    [][FailedShareStep =>
        /\ copies' = copies + 1
        /\ clipboardText' \in {hash} \cup Range(pendingWrites)
        /\ toasts' = IF toastSurface THEN toasts + 1 ELSE toasts
        /\ shareErrors' = shareErrors]_vars

\* C16, first two legs: init([a,b,c]) at "#photo=b" opens the viewer at index 1,
\* and ArrowRight pressed there moves it to index 2 with fragment "#photo=c"
ScenarioInitOpensAtB ==
    (pc = "start" /\ pc' = "ready" /\ photos' = CatalogABC /\ hash = PhotoHash(<<"b">>)) =>
        (currentIndex' = 1 /\ modal' = "shown" /\ rendered' = 1)

ScenarioRightArrowToC ==
    (/\ lastOp'.op = "keydown" /\ lastOp'.br = "ArrowRight"
     /\ photos = CatalogABC /\ modal = "shown" /\ currentIndex = 1) =>
        (currentIndex' = 2 /\ hash' = PhotoHash(<<"c">>) /\ modal' = "shown")

\* The notification of an external change back to "#photo=b" reaches the
\* listener while the viewer shows index 2
ScenarioBackToB ==
    /\ HashChangeStep
    /\ photos = CatalogABC
    /\ modal = "shown"
    /\ currentIndex = 2
    /\ hash = PhotoHash(<<"b">>)

\* C16 as stated: the three legs, the third for every delivery of the
\* notification: the viewer moves to index 1 and stays open.
C16_ScenarioAsStated ==
    [][/\ ScenarioInitOpensAtB
       /\ ScenarioRightArrowToC
       /\ ScenarioBackToB => (currentIndex' = 1 /\ modal' = "shown" /\ modalReq' = "none")]_vars

\* C16 amended: the third leg holds when the notification is delivered after the
\* animation frame that clears the suppression flag; delivered before it, the
\* notification changes nothing (index 2, fragment "#photo=b", still open).  In
\* neither case is a hide requested.
C16_Scenario ==
    [][/\ ScenarioInitOpensAtB
       /\ ScenarioRightArrowToC
       /\ (ScenarioBackToB /\ ~suppressHashChange) =>
             /\ currentIndex' = 1
             /\ rendered' = 1
             /\ hash' = PhotoHash(<<"b">>)
             /\ modal' = "shown"
             /\ modalReq' = "none"
       /\ (ScenarioBackToB /\ suppressHashChange) =>
             /\ UNCHANGED <<currentIndex, rendered, hash, modal>>
             /\ modalReq' = "none"]_vars

C16_Witness ==
    /\ lastOp.op = "hashchange"
    /\ lastOp.br = "navigate"
    /\ photos = CatalogABC
    /\ currentIndex = 1
    /\ rendered = 1
    /\ hash = PhotoHash(<<"b">>)
    /\ modal = "shown"
    /\ historyLength = 1

\* The words of s (maximal runs of letters and digits), lowercased and joined by
\* single hyphens
IsAlnum(c) == LowerChar(c) \in Range(LowerCase) \cup Digits

Normalized(s) ==
    LET F[k \in 0..Len(s)] ==
            IF k = 0 THEN <<>>
            ELSE IF ~IsAlnum(s[k]) THEN F[k - 1]
            ELSE IF k > 1 /\ ~IsAlnum(s[k - 1]) /\ F[k - 1] # <<>>
                 THEN F[k - 1] \o <<"-", LowerChar(s[k])>>
                 ELSE Append(F[k - 1], LowerChar(s[k]))
    IN  F[Len(s)]

\* s without its extension: the part before a dot that is followed by at least
\* one character and by no other dot
BaseName(s) ==
    IF \E k \in DOMAIN s : s[k] = "." /\ k < Len(s) /\ \A m \in (k + 1)..Len(s) : s[m] # "."
    THEN SubSeq(s, 1, (CHOOSE k \in DOMAIN s :
                          s[k] = "." /\ k < Len(s) /\ \A m \in (k + 1)..Len(s) : s[m] # ".") - 1)
    ELSE s

\* [a-z0-9-]* with no leading, trailing or doubled hyphen
NoStrayHyphen(s) ==
    /\ \A k \in DOMAIN s : IsSlugChar(s[k])
    /\ s # <<>> => (s[1] # "-" /\ s[Len(s)] # "-")
    /\ \A k \in 1..(Len(s) - 1) : ~(s[k] = "-" /\ s[k + 1] = "-")

\* The slug the viewer publishes for the record it shows
PublishedSlug == SlugOf(hash)

\* C17 as stated: the published slug of a record with an explicit slug is that
\* slug; of a record without, it is the normalization of the whole filename, and
\* it is a non-empty [a-z0-9-]+ without leading, trailing or doubled hyphen.
C17_SlugAsStated ==
    (modal = "shown" /\ rendered = 0) =>
        LET p == photos[1]
        IN  /\ StartsWith(hash, PhotoPrefix)
            /\ PublishedSlug = slugFor(p)
            /\ p.slug # <<>> => PublishedSlug = p.slug
            /\ p.slug = <<>> => /\ PublishedSlug = Normalized(p.filename)
                                /\ PublishedSlug # <<>>
                                /\ NoStrayHyphen(PublishedSlug)

\* C17 amended: for a record without explicit slug the published slug is the
\* normalization of the filename without its extension; it has no leading,
\* trailing or doubled hyphen and only [a-z0-9-], and it is empty exactly when the
\* filename without extension holds no letter or digit.
C17_SlugFor ==
    (modal = "shown" /\ rendered = 0) =>
        LET p == photos[1]
        IN  /\ StartsWith(hash, PhotoPrefix)
            /\ PublishedSlug = slugFor(p)
            /\ p.slug # <<>> => PublishedSlug = p.slug
            /\ p.slug = <<>> =>
                  /\ PublishedSlug = Normalized(BaseName(p.filename))
                  /\ NoStrayHyphen(PublishedSlug)
                  /\ PublishedSlug = <<>> <=>
                        (\A k \in DOMAIN BaseName(p.filename) : ~IsAlnum(BaseName(p.filename)[k]))

C17_Witness ==
    /\ modal = "shown"
    /\ rendered = 0
    /\ photos[1].slug = <<>>
    /\ photos[1].filename = <<"_", "B", ".", "1">>
    /\ hash = PhotoHash(<<"b">>)

\* C18 as stated: once a notification has been ignored, a further notification
\* delivered in the same window (the flag still set, no frame in between) is
\* processed normally.
C18_OneSwallowedPerWindow ==
    [][(/\ HashChangeStep
        /\ suppressHashChange
        /\ lastOp.op = "hashchange"
        /\ lastOp.br = "suppressed") => lastOp'.br # "suppressed"]_vars

\* C18 amended: every notification delivered while the flag is set is ignored,
\* the second of a window like the first; every notification delivered while it
\* is clear is processed; and the module's own writes queue no notification, so
\* each ignored notification stems from an external change.
C18_AllSwallowedWhileSet ==
    [][/\ (HashChangeStep /\ suppressHashChange) =>
             /\ lastOp'.br = "suppressed"
             /\ suppressHashChange'
             /\ pendingFrames' = pendingFrames
       /\ (HashChangeStep /\ ~suppressHashChange) => lastOp'.br # "suppressed"
       /\ pendingHashChange' > pendingHashChange => lastOp'.op = "external"]_vars

C18_Witness ==
    /\ lastOp.op = "hashchange"
    /\ lastOp.br = "suppressed"
    /\ lastOp.arg = 2
    /\ suppressHashChange
    /\ pendingFrames = 1

C20_IndexChangesOnlyInShow ==
    [][LET i == currentIndex'
           count == Len(photos')
       IN  /\ currentIndex' # currentIndex =>
                 /\ 0 <= i /\ i < count
                 /\ rendered' = i
                 /\ hash' = PhotoPrefix \o slugFor(photos'[i + 1])
                 /\ suppressHashChange'
                 /\ pendingFrames' = pendingFrames + 1
                 /\ preloads' = {j \in {i - 1, i + 1} : 0 <= j /\ j < count}
           /\ \A j \in preloads' : 0 <= j /\ j < count
           /\ lastOp'.op \in {"dismiss", "hidden"} =>
                 (currentIndex' = currentIndex /\ preloads' = {})]_vars

C20_Witness ==
    /\ lastOp.op = "clickNext"
    /\ photos = CatalogABC
    /\ currentIndex = 2
    /\ rendered = 2
    /\ hash = PhotoHash(<<"c">>)
    /\ suppressHashChange
    /\ preloads = {1}

====
